---- MODULE Spec2Model ----
(***************************************************************************)
(* Transactional consistency engine of the devflow Q&A backend: votes and  *)
(* their denormalised counters, tags and their reference counts, the       *)
(* question delete cascade, the reputation ledger, the question lists and  *)
(* recommendations, and the release of sessions.                           *)
(*                                                                         *)
(* The store is one record `db` of collections.  A handler that runs in a  *)
(* mongoose transaction is a composition of store operations on a working  *)
(* copy of `db`; commit installs the working copy, abort keeps `db`.       *)
(***************************************************************************)
EXTENDS Integers, Sequences, FiniteSets, TLC

VARIABLES
    db,                 \* the committed contents of every collection
    pendingVoteCounts,  \* updateVoteCount calls launched without await
    afterTasks,         \* callbacks registered with after(), not yet run
    txns,               \* transactions of interleaved calls, still open
    nextId,             \* ObjectId generator: ids are never reused
    calls,              \* number of handler calls made so far
    last,               \* parameters and response of the last handler call
    prev                \* the value of `last` before that call

vars == <<db, pendingVoteCounts, afterTasks, txns, nextId, calls, last, prev>>

----------------------------------------------------------------------------
(* Bounds of the exploration                                               *)

MaxVoteCalls == 3
MaxTagCalls == 2
MaxDeleteCalls == 3
MaxRepCalls == 2
MaxAuthorCalls == 2
MaxReadCalls == 1
MaxResultCalls == 2
MaxSessionCalls == 2
MaxConcurrentCalls == 2
MaxPostCalls == 2
MaxLedgerCalls == 2
MaxEditCalls == 2
MaxAtomicCalls == 2
MaxOutcomeCalls == 2
MaxCountCalls == 3
MaxViewCalls == 3
MaxToggleCalls == 3
MaxPagingCalls == 2

----------------------------------------------------------------------------
(* Inputs                                                                  *)

Users == {"u1", "u2"}
VoteTypes == {"upvote", "downvote"}
TargetTypes == {"question", "answer"}
InteractionActions == {"view", "upvote", "downvote", "bookmark", "post", "delete"}

\* Tag names are sequences of characters; "J"/"S" are the upper-case forms
\* of "j"/"s".  The names used: "j", "J" and "js" ("j" is a substring of
\* "js").  These are the tag lists requested in createQuestion and
\* editQuestion.
TagLists == {<< <<"j">> >>, << <<"J">> >>, << <<"j", "s">> >>,
             << <<"j">>, <<"j", "s">> >>, << <<"j">>, <<"J">> >>}

\* Title and content of a question, as sequences of characters.
Texts == {[title |-> <<"j">>, content |-> <<"s">>],
          [title |-> <<"s">>, content |-> <<"j", "s">>]}

\* An id no document ever has (a well-formed ObjectId that matches nothing).
MissingId == 0

NoCall == [op |-> "none"]

----------------------------------------------------------------------------
(* String helpers                                                          *)

LowerChar(c) == CASE c = "J" -> "j" [] c = "S" -> "s" [] OTHER -> c

toLowerCase(name) == [i \in 1..Len(name) |-> LowerChar(name[i])]

\* String.prototype.includes: sub occurs in s as a contiguous run.
includes(s, sub) ==
    \E i \in 0..(Len(s) - Len(sub)) : SubSeq(s, i + 1, i + Len(sub)) = sub

\* The filter { name: { $regex: `^${tag}$`, $options: "i" } } on a name made
\* of letters only: a case-insensitive match of the whole name.
RegexMatchesTag(name, tag) == toLowerCase(name) = toLowerCase(tag)

Range(s) == {s[i] : i \in 1..Len(s)}

Min(S) == CHOOSE x \in S : \A y \in S : x <= y

Max(S) == CHOOSE x \in S : \A y \in S : x >= y

Put(f, k, v) == [x \in (DOMAIN f) \cup {k} |-> IF x = k THEN v ELSE f[x]]

Drop(f, K) == [x \in (DOMAIN f) \ K |-> f[x]]

----------------------------------------------------------------------------
(* Transactions                                                            *)

\* session.commitTransaction(): the working copy becomes the committed state.
commitTransaction(before, work) == work

\* A write issued without the session is not part of the transaction and
\* survives the abort.
abortKeepsWrites(before, work) == work

\* session.abortTransaction(): every write made with the session is undone.
abortTransaction(before, work) == before

\* How a handler leaves the session it started.  `failed`: a call inside the
\* try threw (a store call, a check of the handler, or the commit);
\* `abortThrows`: session.abortTransaction() in the catch throws as well.

\* try { ... } catch { abort } finally { await session.endSession() }: the
\* finally runs on every path, and ending a session discards a transaction
\* that is still in progress.
ExitWithFinally(failed, abortThrows) ==
    [transaction |-> IF failed THEN "aborted" ELSE "committed",
     ended       |-> TRUE]

\* try { ...; commit; session.endSession() } catch { await abort;
\* session.endSession(); ... } with no finally: when the abort throws, the
\* statement after it is never reached.
ExitWithoutFinally(failed, abortThrows) ==
    [transaction |-> IF ~failed THEN "committed"
                     ELSE IF abortThrows THEN "open" ELSE "aborted",
     ended       |-> ~(failed /\ abortThrows)]

\* An exception thrown by the catch block itself leaves the handler as a
\* raised fault instead of a response.
Escapes(failed, abortThrows) == failed /\ abortThrows

----------------------------------------------------------------------------
(* Initial store: question 1 by u1 tagged "js" (tag 2, association 3), with*)
(* answer 4 by u2.  No votes, bookmarks or interactions yet.               *)

InitDb ==
    [questions    |-> (1 :> [author |-> "u1", title |-> <<"j">>,
                             content |-> <<"s">>, tags |-> <<2>>,
                             upvotes |-> 0, downvotes |-> 0, views |-> 0,
                             answers |-> 1, createdAt |-> 1, __v |-> 0]),
     answers      |-> (4 :> [question |-> 1, author |-> "u2",
                             upvotes |-> 0, downvotes |-> 0]),
     tags         |-> (2 :> [name |-> <<"j", "s">>, questions |-> 1]),
     tagQuestions |-> {[_id |-> 3, tag |-> 2, question |-> 1]},
     votes        |-> {},
     collections  |-> {},
     users        |-> [u \in Users |-> 0],
     interactions |-> {}]

Init ==
    /\ db = InitDb
    /\ pendingVoteCounts = {}
    /\ afterTasks = {}
    /\ txns = {}
    /\ nextId = 5
    /\ calls = 0
    /\ last = NoCall
    /\ prev = NoCall

----------------------------------------------------------------------------
(* Votes                                                                   *)

VotesOf(d, userId, targetId, targetType) ==
    {v \in d.votes : v.author = userId /\ v.actionId = targetId
                     /\ v.actionType = targetType}

\* Vote.findOne({ author, actionId, actionType, voteType }): the first
\* matching document in insertion order, or none.
FindExistingVote(d, userId, targetId, targetType, voteType) ==
    {v \in VotesOf(d, userId, targetId, targetType) : v.voteType = voteType}

TargetExists(d, targetId, targetType) ==
    IF targetType = "question" THEN targetId \in DOMAIN d.questions
                               ELSE targetId \in DOMAIN d.answers

\* Model.findByIdAndUpdate(targetId, { $inc: { [voteField]: change } }):
\* an atomic increment; a missing target yields null and changes nothing.
IncVoteField(d, targetId, targetType, voteType, change) ==
    IF ~TargetExists(d, targetId, targetType) THEN d
    ELSE IF targetType = "question"
         THEN [d EXCEPT !.questions[targetId] =
                 IF voteType = "upvote"
                 THEN [@ EXCEPT !.upvotes = @ + change]
                 ELSE [@ EXCEPT !.downvotes = @ + change]]
         ELSE [d EXCEPT !.answers[targetId] =
                 IF voteType = "upvote"
                 THEN [@ EXCEPT !.upvotes = @ + change]
                 ELSE [@ EXCEPT !.downvotes = @ + change]]

\* The Vote write of createVote and the counter change it asks for.
VoteWrite(d, userId, targetId, targetType, voteType, id) ==
    LET found == FindExistingVote(d, userId, targetId, targetType, voteType) IN
    IF found # {}
    THEN LET existingVote == CHOOSE v \in found : \A w \in found : v._id <= w._id IN
         IF existingVote.voteType = voteType
         THEN [votes |-> d.votes \ {existingVote}, change |-> -1]
         ELSE [votes |-> (d.votes \ {existingVote})
                            \cup {[existingVote EXCEPT !.voteType = voteType]},
               change |-> 1]
    ELSE [votes |-> d.votes \cup {[_id |-> id, author |-> userId,
                                   actionId |-> targetId, actionType |-> targetType,
                                   voteType |-> voteType]},
          change |-> 1]

VoteCall(userId, targetId, targetType, voteType, ok, abortThrows) ==
    [op |-> "createVote", userId |-> userId, targetId |-> targetId,
     targetType |-> targetType, voteType |-> voteType, ok |-> ok,
     error |-> IF ok THEN "none" ELSE "Error",
     thrown |-> Escapes(~ok, abortThrows),
     session |-> ExitWithoutFinally(~ok, abortThrows),
     preVotes |-> VotesOf(db, userId, targetId, targetType),
     pre |-> db]

\* createVote: the Vote write runs in the transaction and is committed; the
\* updateVoteCount call is launched without await and its result is never
\* read, so it is still in flight when commitTransaction is called.
\* `fails`: a store call of the transaction, or the commit, throws and the
\* catch aborts; a counter update launched before that belongs to the
\* aborted transaction or is rejected, so none stays in flight.  When the
\* abort throws too, the transaction is never committed: its writes are
\* not in the store.
createVote(userId, targetId, targetType, voteType, fails, abortThrows) ==
    LET w == VoteWrite(db, userId, targetId, targetType, voteType, nextId) IN
    /\ calls' = calls + 1
    /\ prev' = last
    /\ UNCHANGED <<afterTasks, txns>>
    /\ fails \/ ~abortThrows
    /\ IF fails
       THEN /\ db' = abortTransaction(db, [db EXCEPT !.votes = w.votes])
            /\ UNCHANGED <<pendingVoteCounts, nextId>>
            /\ last' = VoteCall(userId, targetId, targetType, voteType, FALSE,
                                abortThrows)
       ELSE /\ db' = commitTransaction(db, [db EXCEPT !.votes = w.votes])
            /\ pendingVoteCounts' = pendingVoteCounts \cup
                   {[call |-> calls + 1, targetId |-> targetId,
                     targetType |-> targetType, voteType |-> voteType,
                     change |-> w.change]}
            /\ nextId' = nextId + 1
            /\ last' = VoteCall(userId, targetId, targetType, voteType, TRUE,
                                abortThrows)

\* The detached updateVoteCount reaches the store and increments the counter
\* (or finds no target and returns an error response nobody reads).
updateVoteCountApplied(p) ==
    /\ p \in pendingVoteCounts
    /\ db' = IncVoteField(db, p.targetId, p.targetType, p.voteType, p.change)
    /\ pendingVoteCounts' = pendingVoteCounts \ {p}
    /\ UNCHANGED <<afterTasks, txns, nextId, calls, last, prev>>

\* The detached updateVoteCount reaches the store after the session's
\* transaction was committed and the session ended: the driver rejects it,
\* updateVoteCount catches the error and returns a response nobody reads.
updateVoteCountRejected(p) ==
    /\ p \in pendingVoteCounts
    /\ pendingVoteCounts' = pendingVoteCounts \ {p}
    /\ UNCHANGED <<db, afterTasks, txns, nextId, calls, last, prev>>

VoteTargets == {<<1, "question">>, <<4, "answer">>, <<MissingId, "question">>}

NextVote ==
    \/ /\ calls < MaxVoteCalls
       /\ \E userId \in Users, t \in VoteTargets, voteType \in VoteTypes,
             fails \in BOOLEAN :
             createVote(userId, t[1], t[2], voteType, fails, FALSE)
    \/ \E p \in pendingVoteCounts : updateVoteCountApplied(p)
    \/ \E p \in pendingVoteCounts : updateVoteCountRejected(p)

SpecVote == Init /\ [][NextVote]_vars

----------------------------------------------------------------------------
(* Claims about votes                                                      *)

Counter(d, targetId, targetType, voteType) ==
    LET doc == IF targetType = "question" THEN d.questions[targetId]
                                          ELSE d.answers[targetId]
    IN IF voteType = "upvote" THEN doc.upvotes ELSE doc.downvotes

OtherVoteType(voteType) == IF voteType = "upvote" THEN "downvote" ELSE "upvote"

\* C1: in every state there is at most one Vote row per (author, target,
\* target kind): never an upvote row and a downvote row together, never two
\* rows of one kind.
C1_OneVotePerAuthorAndTarget ==
    \A userId \in Users, t \in VoteTargets :
        Cardinality(VotesOf(db, userId, t[1], t[2])) <= 1

\* C2: when the same user made two successful createVote calls in sequence
\* with the same kind on the same existing target, starting from no vote,
\* then (once the counter updates of both calls are through) the user has
\* no Vote row on the target and both counters are at their starting values.
C2_SameKindTwiceIsNoVote ==
    ( /\ last.op = "createVote" /\ prev.op = "createVote"
      /\ last.ok /\ prev.ok
      /\ last.userId = prev.userId /\ last.targetId = prev.targetId
      /\ last.targetType = prev.targetType /\ last.voteType = prev.voteType
      /\ prev.preVotes = {}
      /\ TargetExists(db, last.targetId, last.targetType)
      /\ pendingVoteCounts = {} )
    => /\ VotesOf(db, last.userId, last.targetId, last.targetType) = {}
       /\ \A k \in VoteTypes :
            Counter(db, last.targetId, last.targetType, k)
              = Counter(prev.pre, last.targetId, last.targetType, k)

\* C3: when a user holding one vote of kind k on a target made a successful
\* createVote call with the other kind k', the user holds exactly the same
\* Vote row with its kind changed to k', and (once the counter update is
\* through) the counter of k' is one higher and the counter of k unchanged.
C3_FlipUpdatesRowInPlace ==
    ( /\ last.op = "createVote" /\ last.ok
      /\ Cardinality(last.preVotes) = 1
      /\ \A v \in last.preVotes : v.voteType = OtherVoteType(last.voteType) )
    => /\ VotesOf(db, last.userId, last.targetId, last.targetType)
            = {[v EXCEPT !.voteType = last.voteType] : v \in last.preVotes}
       /\ ( pendingVoteCounts = {}
            /\ TargetExists(db, last.targetId, last.targetType) )
          => /\ Counter(db, last.targetId, last.targetType, last.voteType)
                  = Counter(last.pre, last.targetId, last.targetType, last.voteType) + 1
             /\ Counter(db, last.targetId, last.targetType, OtherVoteType(last.voteType))
                  = Counter(last.pre, last.targetId, last.targetType,
                            OtherVoteType(last.voteType))

\* C4: in every committed state with no counter update in flight, every Vote
\* row targets an existing document and each counter of each target equals
\* the number of Vote rows of that kind on it (no counter drift).
C4_NoCounterDrift ==
    pendingVoteCounts = {} =>
      /\ \A v \in db.votes : TargetExists(db, v.actionId, v.actionType)
      /\ \A targetType \in TargetTypes, voteType \in VoteTypes :
           \A targetId \in (IF targetType = "question" THEN DOMAIN db.questions
                                                      ELSE DOMAIN db.answers) :
              Counter(db, targetId, targetType, voteType)
                = Cardinality({v \in db.votes : /\ v.actionId = targetId
                                                /\ v.actionType = targetType
                                                /\ v.voteType = voteType})

----------------------------------------------------------------------------
(* Transactional handlers: `trace` is the sequence of working copies after *)
(* each store write made with the session, in program order.  failAt = 0:  *)
(* nothing throws and the transaction commits; failAt = k in 1..Len(trace):*)
(* the k-th write throws after the writes before it; failAt = Len(trace)+1:*)
(* commitTransaction throws.  Every throw lands in the catch, which aborts.*)

WorkAt(before, trace, k) == IF k = 0 THEN before ELSE trace[k]

\* A failed call keeps the writes made before the failure.
OutcomeKeepsWrites(before, trace, failAt) ==
    WorkAt(before, trace, IF failAt = 0 THEN Len(trace) ELSE failAt - 1)

Outcome(before, trace, failAt) ==
    IF failAt = 0
    THEN commitTransaction(before, WorkAt(before, trace, Len(trace)))
    ELSE abortTransaction(before, WorkAt(before, trace, failAt - 1))

FailPoints(trace) == 0..(Len(trace) + 1)

\* The positions tried: the longest handler (deleteQuestion) makes seven
\* writes and one commit.
FailAts == 0..8

----------------------------------------------------------------------------
(* Questions and tags                                                      *)

\* Tag.findOneAndUpdate({ name: /^tag$/i }, { $setOnInsert: { name: tag },
\* $inc: { questions: 1 } }, { upsert: true, new: true }): increments the
\* first matching tag, or inserts one named `tag` with questions = 1.
UpsertTag(d, id, tag) ==
    LET match == {t \in DOMAIN d.tags : RegexMatchesTag(d.tags[t].name, tag)} IN
    IF match # {}
    THEN [d |-> [d EXCEPT !.tags[Min(match)].questions = @ + 1],
          tagId |-> Min(match), id |-> id]
    ELSE [d |-> [d EXCEPT !.tags = Put(@, id, [name |-> tag, questions |-> 1])],
          tagId |-> id, id |-> id + 1]

\* The loop `for (const tag of tags)`: one upsert per requested name, each a
\* write of its own.  Yields the working copy, the next free id, the ids of
\* the tags in request order and the working copy after each upsert.
RECURSIVE UpsertTags(_, _, _)
UpsertTags(d, id, tags) ==
    IF tags = <<>>
    THEN [d |-> d, id |-> id, tagIds |-> <<>>, trace |-> <<>>]
    ELSE LET u    == UpsertTag(d, id, Head(tags))
             rest == UpsertTags(u.d, u.id, Tail(tags))
         IN [d |-> rest.d, id |-> rest.id,
             tagIds |-> <<u.tagId>> \o rest.tagIds,
             trace |-> <<u.d>> \o rest.trace]

\* TagQuestion.insertMany(documents): one row per document, each with its
\* own _id.
InsertTagQuestions(d, id, tagIds, questionId) ==
    [d EXCEPT !.tagQuestions = @ \cup
        {[_id |-> id + i - 1, tag |-> tagIds[i], question |-> questionId] :
            i \in 1..Len(tagIds)}]

\* An update that takes two from each matching tag document.
DecrementTagsTwice(d, ids) ==
    [d EXCEPT !.tags = [t \in DOMAIN @ |->
        IF t \in ids THEN [@[t] EXCEPT !.questions = @ - 2] ELSE @[t]]]

\* Tag.updateMany({ _id: { $in: ids } }, { $inc: { questions: -1 } }): each
\* matching tag document is decremented once.
DecrementTags(d, ids) ==
    [d EXCEPT !.tags = [t \in DOMAIN @ |->
        IF t \in ids THEN [@[t] EXCEPT !.questions = @ - 1] ELSE @[t]]]

\* The instants a document created now can carry in createdAt: the clock
\* has millisecond resolution, so it may still show the instant of the
\* latest question.
Clock(d) ==
    LET latest == Max({d.questions[q].createdAt : q \in DOMAIN d.questions}
                      \cup {0})
    IN {latest, latest + 1}

\* The callback registered on every exit of createQuestion.
PostInteractionTaskAlways(committed, questionId, userId) ==
    {[questionId |-> questionId, userId |-> userId]}

\* The callback createQuestion registers with after(): the statement follows
\* `await session.commitTransaction()` inside the try, so it is reached only
\* when the commit has returned.
PostInteractionTask(committed, questionId, userId) ==
    IF committed THEN {[questionId |-> questionId, userId |-> userId]} ELSE {}

\* The writes of createQuestion in program order.
CreateQuestionWork(d, id, userId, text, tags, now) ==
    LET questionId == id
        s1 == [d EXCEPT !.questions =
                 Put(@, questionId, [author |-> userId, title |-> text.title,
                                     content |-> text.content, tags |-> <<>>,
                                     upvotes |-> 0, downvotes |-> 0,
                                     views |-> 0, answers |-> 0,
                                     createdAt |-> now, __v |-> 0])]
        up == UpsertTags(s1, id + 1, tags)
        s2 == InsertTagQuestions(up.d, up.id, up.tagIds, questionId)
        s3 == [s2 EXCEPT !.questions[questionId].tags = @ \o up.tagIds]
    IN [trace |-> <<s1>> \o up.trace \o <<s2, s3>>,
        id |-> up.id + Len(up.tagIds),
        questionId |-> questionId]

\* The exit of a handler in which a statement placed after
\* `await session.commitTransaction()` inside the try throws: the catch
\* calls abortTransaction on the committed transaction, which the driver
\* refuses by throwing; the finally ends the session and the call rejects.
ThrownAfterCommit(call) ==
    [call EXCEPT !.ok = FALSE, !.error = "Error", !.thrown = TRUE,
                 !.session = [transaction |-> "committed", ended |-> TRUE],
                 !.abortedAfterCommit = TRUE]

\* createQuestion.  `afterThrows`: the commit has returned and the
\* registration `after(...)` throws.
createQuestionThen(userId, text, tags, now, failAt, abortThrows, afterThrows) ==
    LET w == CreateQuestionWork(db, nextId, userId, text, tags, now)
        call == [op |-> "createQuestion", userId |-> userId, text |-> text,
                 tags |-> tags,
                 questionId |-> w.questionId, ok |-> failAt = 0,
                 error |-> IF failAt = 0 THEN "none" ELSE "Error",
                 thrown |-> Escapes(failAt # 0, abortThrows),
                 session |-> ExitWithFinally(failAt # 0, abortThrows),
                 abortedAfterCommit |-> FALSE,
                 pre |-> db]
    IN
    /\ failAt \in FailPoints(w.trace)
    /\ failAt # 0 \/ ~abortThrows
    /\ failAt = 0 \/ ~afterThrows
    /\ calls' = calls + 1
    /\ prev' = last
    /\ db' = Outcome(db, w.trace, failAt)
    /\ nextId' = IF failAt = 0 THEN w.id ELSE nextId
    /\ afterTasks' = afterTasks \cup
          PostInteractionTask(failAt = 0 /\ ~afterThrows, w.questionId, userId)
    /\ last' = IF afterThrows THEN ThrownAfterCommit(call) ELSE call
    /\ UNCHANGED <<pendingVoteCounts, txns>>

\* A createQuestion call in which the registration returns.
createQuestion(userId, text, tags, now, failAt, abortThrows) ==
    createQuestionThen(userId, text, tags, now, failAt, abortThrows, FALSE)

\* question.tags after populate("tags"): the tag documents, in order.
TagNameOf(d, tagId) == d.tags[tagId].name

\* tagsToAdd: the requested names for which no tag of the question has a
\* lower-cased name that includes the lower-cased requested name.
TagsToAdd(d, questionTags, tags) ==
    LET Missing(tag) ==
          ~ \E i \in 1..Len(questionTags) :
               includes(toLowerCase(TagNameOf(d, questionTags[i])), toLowerCase(tag))
    IN SelectSeq(tags, Missing)

\* tagsToRemove: the tags of the question whose lower-cased name equals no
\* lower-cased requested name.
TagsToRemove(d, questionTags, tags) ==
    LET Unrequested(tagId) ==
          ~ \E i \in 1..Len(tags) :
               toLowerCase(tags[i]) = toLowerCase(TagNameOf(d, tagId))
    IN SelectSeq(questionTags, Unrequested)

\* Every caller passes the author check.
IsAnyUser(d, questionId, userId) == TRUE

\* question.author.toString() === userId: the caller is the question's
\* author (the same test guards deleteQuestion).
IsAuthor(d, questionId, userId) == d.questions[questionId].author = userId

\* A save that carries no version in its filter.
VersionIgnored(question, d, questionId) == questionId \in DOMAIN d.questions

\* question.save() of a document whose tags array was reassigned is a
\* versioned update: its filter carries the __v the document was loaded
\* with, and it throws a VersionError when no stored document matches.
VersionMatches(question, d, questionId) ==
    /\ questionId \in DOMAIN d.questions
    /\ d.questions[questionId].__v = question.__v

\* The writes of editQuestion after the author check, in program order:
\* the save of a changed title or content, the tag upserts, the removals,
\* the new associations and the save of the tag list.  `read` is the store
\* as `Question.findById(questionId).populate("tags")` saw it (the query
\* carries no session), `d` the store the session's writes act on.  The
\* last save sends only the tags path: pushed ids as a $push, a reassigned
\* array as a versioned $set; both increment __v.
EditQuestionWrites(read, d, id, questionId, text, tags) ==
    LET question       == read.questions[questionId]
        changed        == question.title # text.title
                          \/ question.content # text.content
        s0 == [d EXCEPT !.questions[questionId].title = text.title,
                        !.questions[questionId].content = text.content]
        saved          == IF changed THEN <<s0>> ELSE <<>>
        afterSave      == IF changed THEN s0 ELSE d
        tagsToAdd      == TagsToAdd(read, question.tags, tags)
        tagsToRemove   == TagsToRemove(read, question.tags, tags)
        up             == UpsertTags(afterSave, id, tagsToAdd)
        tagIdsToRemove == Range(tagsToRemove)
        pushed         == question.tags \o up.tagIds
        s1 == DecrementTags(up.d, tagIdsToRemove)
        s2 == [s1 EXCEPT !.tagQuestions =
                 {r \in @ : ~(r.tag \in tagIdsToRemove /\ r.question = questionId)}]
        removed == IF tagsToRemove # <<>> THEN <<s1, s2>> ELSE <<>>
        afterRemove == IF tagsToRemove # <<>> THEN s2 ELSE up.d
        kept  == LET Stays(t) == t \notin tagIdsToRemove IN SelectSeq(pushed, Stays)
        s3 == InsertTagQuestions(afterRemove, up.id, up.tagIds, questionId)
        inserted == IF up.tagIds # <<>> THEN <<s3>> ELSE <<>>
        afterInsert == IF up.tagIds # <<>> THEN s3 ELSE afterRemove
        s4 == IF tagsToRemove # <<>>
              THEN [afterInsert EXCEPT !.questions[questionId].tags = kept,
                                       !.questions[questionId].__v = @ + 1]
              ELSE IF up.tagIds # <<>>
              THEN [afterInsert EXCEPT !.questions[questionId].tags = @ \o up.tagIds,
                                       !.questions[questionId].__v = @ + 1]
              ELSE afterInsert
    IN [trace |-> saved \o up.trace \o removed \o inserted \o <<s4>>,
        id |-> up.id + Len(up.tagIds),
        versionError |-> tagsToRemove # <<>>
                         /\ ~VersionMatches(question, afterInsert, questionId),
        tagsToAdd |-> tagsToAdd,
        tagsToRemove |-> [i \in 1..Len(tagsToRemove) |-> TagNameOf(read, tagsToRemove[i])]]

\* A call whose steps are not interleaved with another call's: the session
\* writes on the store the question was read from.
EditQuestionWork(d, id, questionId, text, tags) ==
    EditQuestionWrites(d, d, id, questionId, text, tags)

EditCall(userId, questionId, text, tags, error, abortThrows, tagsToAdd, tagsToRemove) ==
    [op |-> "editQuestion", userId |-> userId, questionId |-> questionId,
     text |-> text, tags |-> tags, ok |-> error = "none", error |-> error,
     thrown |-> Escapes(error # "none", abortThrows),
     session |-> ExitWithFinally(error # "none", abortThrows),
     abortedAfterCommit |-> FALSE,
     tagsToAdd |-> tagsToAdd, tagsToRemove |-> tagsToRemove, pre |-> db]

\* editQuestion: the NotFoundError and the UnauthorizedError are thrown
\* inside the try, before any write, and land in the catch like a failed
\* write.
editQuestion(userId, questionId, text, tags, failAt, abortThrows) ==
    /\ calls' = calls + 1
    /\ prev' = last
    /\ UNCHANGED <<pendingVoteCounts, afterTasks, txns>>
    /\ IF questionId \notin DOMAIN db.questions
       THEN /\ failAt = 0
            /\ db' = abortTransaction(db, db)
            /\ last' = EditCall(userId, questionId, text, tags, "NotFound",
                                abortThrows, <<>>, <<>>)
            /\ UNCHANGED nextId
       ELSE IF ~IsAuthor(db, questionId, userId)
       THEN /\ failAt = 0
            /\ db' = abortTransaction(db, db)
            /\ last' = EditCall(userId, questionId, text, tags, "Unauthorized",
                                abortThrows, <<>>, <<>>)
            /\ UNCHANGED nextId
       ELSE LET w == EditQuestionWork(db, nextId, questionId, text, tags) IN
            /\ failAt \in FailPoints(w.trace)
            /\ failAt # 0 \/ ~abortThrows
            /\ db' = Outcome(db, w.trace, failAt)
            /\ nextId' = IF failAt = 0 THEN w.id ELSE nextId
            /\ last' = EditCall(userId, questionId, text, tags,
                                IF failAt = 0 THEN "none" ELSE "Error",
                                abortThrows, w.tagsToAdd, w.tagsToRemove)

----------------------------------------------------------------------------
(* Delete cascade                                                          *)

AnswersOf(d, questionId) ==
    {a \in DOMAIN d.answers : d.answers[a].question = questionId}

\* Vote.deleteMany({ _id: { $in: ids } }): the Vote rows whose own _id is
\* one of `ids` are removed.
DeleteVotesById(d, ids) == [d EXCEPT !.votes = {v \in @ : v._id \notin ids}]

\* The writes of deleteQuestion after the author check, in program order.
DeleteQuestionWork(d, questionId) ==
    LET question == d.questions[questionId]
        answers  == AnswersOf(d, questionId)
        s1 == [d EXCEPT !.collections = {c \in @ : c.question # questionId}]
        s2 == [s1 EXCEPT !.tagQuestions = {r \in @ : r.question # questionId}]
        s3 == DecrementTags(s2, Range(question.tags))
        tagged == IF Len(question.tags) > 0 THEN <<s3>> ELSE <<>>
        afterTags == IF Len(question.tags) > 0 THEN s3 ELSE s2
        s4 == [afterTags EXCEPT !.votes =
                 {v \in @ : ~(v.actionId = questionId /\ v.actionType = "question")}]
        s5 == [s4 EXCEPT !.answers = Drop(@, answers)]
        s6 == DeleteVotesById(s5, answers)
        answered == IF answers # {} THEN <<s5, s6>> ELSE <<>>
        afterAnswers == IF answers # {} THEN s6 ELSE s4
        s7 == [afterAnswers EXCEPT !.questions = Drop(@, {questionId})]
    IN <<s1, s2>> \o tagged \o <<s4>> \o answered \o <<s7>>

DeleteCall(userId, questionId, error, failAt, abortThrows) ==
    [op |-> "deleteQuestion", userId |-> userId, questionId |-> questionId,
     ok |-> error = "none", error |-> error, failAt |-> failAt,
     thrown |-> Escapes(error # "none", abortThrows),
     session |-> ExitWithFinally(error # "none", abortThrows),
     abortedAfterCommit |-> FALSE,
     pre |-> db]

\* deleteQuestion.  `revalidateThrows`: the commit has returned and
\* `revalidatePath` throws.
deleteQuestionThen(userId, questionId, failAt, abortThrows, revalidateThrows) ==
    /\ calls' = calls + 1
    /\ prev' = last
    /\ UNCHANGED <<pendingVoteCounts, afterTasks, txns, nextId>>
    /\ IF questionId \notin DOMAIN db.questions
       THEN /\ failAt = 0
            /\ db' = abortTransaction(db, db)
            /\ last' = DeleteCall(userId, questionId, "NotFound", 0, abortThrows)
       ELSE IF ~IsAuthor(db, questionId, userId)
       THEN /\ failAt = 0
            /\ db' = abortTransaction(db, db)
            /\ last' = DeleteCall(userId, questionId, "Unauthorized", 0,
                                  abortThrows)
       ELSE LET trace == DeleteQuestionWork(db, questionId)
                call  == DeleteCall(userId, questionId,
                                    IF failAt = 0 THEN "none" ELSE "Error",
                                    failAt, abortThrows)
            IN
            /\ failAt \in FailPoints(trace)
            /\ failAt # 0 \/ ~abortThrows
            /\ db' = Outcome(db, trace, failAt)
            /\ last' = IF failAt = 0 /\ revalidateThrows
                       THEN ThrownAfterCommit(call) ELSE call

\* A deleteQuestion call in which revalidatePath returns.
deleteQuestion(userId, questionId, failAt, abortThrows) ==
    deleteQuestionThen(userId, questionId, failAt, abortThrows, FALSE)

----------------------------------------------------------------------------
(* Bookmarks                                                               *)

\* toggleSaveQuestion: no transaction.  A missing question throws outside
\* the try block; otherwise the user's Collection row for the question is
\* deleted when one is found and created when none is.
toggleSaveQuestion(userId, questionId) ==
    LET found == {c \in db.collections :
                    c.question = questionId /\ c.author = userId} IN
    /\ calls' = calls + 1
    /\ prev' = last
    /\ UNCHANGED <<pendingVoteCounts, afterTasks, txns>>
    /\ IF questionId \notin DOMAIN db.questions
       THEN /\ UNCHANGED <<db, nextId>>
            /\ last' = [op |-> "toggleSaveQuestion", userId |-> userId,
                        questionId |-> questionId, ok |-> FALSE,
                        error |-> "NotFound", thrown |-> TRUE, pre |-> db]
       ELSE IF found # {}
       THEN LET collection == CHOOSE c \in found : \A o \in found : c._id <= o._id IN
            /\ db' = [db EXCEPT !.collections = @ \ {collection}]
            /\ UNCHANGED nextId
            /\ last' = [op |-> "toggleSaveQuestion", userId |-> userId,
                        questionId |-> questionId, ok |-> TRUE, error |-> "none",
                        thrown |-> FALSE, saved |-> FALSE, pre |-> db]
       ELSE /\ db' = [db EXCEPT !.collections = @ \cup
                        {[_id |-> nextId, question |-> questionId, author |-> userId]}]
            /\ nextId' = nextId + 1
            /\ last' = [op |-> "toggleSaveQuestion", userId |-> userId,
                        questionId |-> questionId, ok |-> TRUE, error |-> "none",
                        thrown |-> FALSE, saved |-> TRUE, pre |-> db]

----------------------------------------------------------------------------
(* Reputation                                                              *)

\* switch (action): the points of the performer.
performerPoints(action, actionType) ==
    CASE action = "upvote"   -> 2
      [] action = "downvote" -> -1
      [] OTHER               -> 0

\* The author's points with the target kind ignored.
authorPointsAnyTarget(action, actionType) ==
    CASE action = "upvote"   -> 10
      [] action = "downvote" -> -2
      [] action = "post"     -> 5
      [] action = "delete"   -> -5
      [] OTHER               -> 0

\* switch (action): the points of the content author.
authorPoints(action, actionType) ==
    CASE action = "upvote"   -> 10
      [] action = "downvote" -> -2
      [] action = "post"     -> IF actionType = "question" THEN 5 ELSE 10
      [] action = "delete"   -> IF actionType = "question" THEN -5 ELSE -10
      [] OTHER               -> 0

\* The User updates updateReputation issues: one findByIdAndUpdate when the
\* performer is the author, otherwise one bulkWrite of two updateOne.
ReputationUpdates(action, actionType, performerId, authorId) ==
    IF performerId = authorId
    THEN <<[user |-> performerId, inc |-> authorPoints(action, actionType)]>>
    ELSE <<[user |-> performerId, inc |-> performerPoints(action, actionType)],
           [user |-> authorId, inc |-> authorPoints(action, actionType)]>>

\* { $inc: { reputation: n } } on the user with that _id, if there is one.
RECURSIVE ApplyReputation(_, _)
ApplyReputation(d, updates) ==
    IF updates = <<>> THEN d
    ELSE LET u == Head(updates)
             d1 == IF u.user \in DOMAIN d.users
                   THEN [d EXCEPT !.users[u.user] = @ + u.inc] ELSE d
         IN ApplyReputation(d1, Tail(updates))

\* The writes of createInteraction in program order: Interaction.create,
\* then the single User write of updateReputation.
CreateInteractionWork(d, id, userId, action, actionId, actionTarget, authorId) ==
    LET s1 == [d EXCEPT !.interactions = @ \cup
                 {[_id |-> id, action |-> action, actionId |-> actionId,
                   actionType |-> actionTarget, user |-> userId]}]
        s2 == ApplyReputation(s1, ReputationUpdates(action, actionTarget, userId, authorId))
    IN <<s1, s2>>

createInteraction(userId, action, actionId, actionTarget, authorId, failAt, abortThrows) ==
    LET trace == CreateInteractionWork(db, nextId, userId, action, actionId,
                                       actionTarget, authorId) IN
    /\ failAt \in FailPoints(trace)
    /\ failAt # 0 \/ ~abortThrows
    /\ calls' = calls + 1
    /\ prev' = last
    /\ db' = Outcome(db, trace, failAt)
    /\ nextId' = IF failAt = 0 THEN nextId + 1 ELSE nextId
    /\ last' = [op |-> "createInteraction", userId |-> userId, action |-> action,
                actionId |-> actionId, actionType |-> actionTarget,
                authorId |-> authorId, ok |-> failAt = 0,
                error |-> IF failAt = 0 THEN "none" ELSE "Error",
                thrown |-> Escapes(failAt # 0, abortThrows),
                session |-> ExitWithFinally(failAt # 0, abortThrows),
                updates |-> ReputationUpdates(action, actionTarget, userId, authorId),
                pre |-> db]
    /\ UNCHANGED <<pendingVoteCounts, afterTasks, txns>>

----------------------------------------------------------------------------
(* Specifications                                                          *)

QuestionIds == {1, MissingId} \cup (5..(nextId - 1))

\* createQuestion, editQuestion and deleteQuestion on tagged questions.
NextTag ==
    \/ /\ calls < MaxTagCalls
       /\ \E userId \in Users, text \in Texts, tags \in TagLists,
             now \in Clock(db), failAt \in FailAts :
             createQuestion(userId, text, tags, now, failAt, FALSE)
    \/ /\ calls < MaxTagCalls
       /\ \E userId \in Users, questionId \in QuestionIds, text \in Texts,
             tags \in TagLists, failAt \in FailAts :
             editQuestion(userId, questionId, text, tags, failAt, FALSE)
    \/ /\ calls < MaxTagCalls
       /\ \E userId \in Users, questionId \in QuestionIds, failAt \in FailAts :
             deleteQuestion(userId, questionId, failAt, FALSE)

SpecTag == Init /\ [][NextTag]_vars

\* Votes and bookmarks on question 1 and its answer 4, and the deletion of
\* the question.
NextDelete ==
    \/ /\ calls < MaxDeleteCalls
       /\ \E userId \in Users, t \in {<<1, "question">>, <<4, "answer">>},
             voteType \in VoteTypes :
             createVote(userId, t[1], t[2], voteType, FALSE, FALSE)
    \/ /\ calls < MaxDeleteCalls
       /\ \E userId \in Users : toggleSaveQuestion(userId, 1)
    \/ /\ calls < MaxDeleteCalls
       /\ \E userId \in Users, questionId \in {1, MissingId}, failAt \in FailAts :
             deleteQuestion(userId, questionId, failAt, FALSE)
    \/ \E p \in pendingVoteCounts : updateVoteCountApplied(p)
    \/ \E p \in pendingVoteCounts : updateVoteCountRejected(p)

SpecDelete == Init /\ [][NextDelete]_vars

\* createInteraction by every performer on content of every author.
NextRep ==
    /\ calls < MaxRepCalls
    /\ \E userId \in Users, authorId \in Users, action \in InteractionActions,
          actionTarget \in TargetTypes, failAt \in FailAts :
          createInteraction(userId, action,
                            IF actionTarget = "question" THEN 1 ELSE 4,
                            actionTarget, authorId, failAt, FALSE)

SpecRep == Init /\ [][NextRep]_vars

----------------------------------------------------------------------------
(* Claims about tags                                                       *)

QuestionsCarrying(d, tagId) ==
    {q \in DOMAIN d.questions : tagId \in Range(d.questions[q].tags)}

\* C5: in every state each Tag's reference count (questions) equals the
\* number of existing questions whose tag set contains that tag.
C5_TagReferenceCount ==
    \A t \in DOMAIN db.tags :
        db.tags[t].questions = Cardinality(QuestionsCarrying(db, t))

LowerNames(names) == {toLowerCase(n) : n \in names}

TagNamesOfQuestion(d, questionId) ==
    {TagNameOf(d, t) : t \in Range(d.questions[questionId].tags)}

\* C10: after a successful editQuestion the tags added are exactly the
\* requested names with no case-insensitive equal among the question's
\* previous tag names, the tags removed are exactly the previous tags with
\* no case-insensitive equal among the requested names, and the question's
\* tag names equal the requested names up to letter case.
C10_EditTagDiff ==
    (last.op = "editQuestion" /\ last.ok) =>
      LET existing  == TagNamesOfQuestion(last.pre, last.questionId)
          requested == Range(last.tags)
      IN /\ Range(last.tagsToAdd)
              = {n \in requested : toLowerCase(n) \notin LowerNames(existing)}
         /\ Range(last.tagsToRemove)
              = {n \in existing : toLowerCase(n) \notin LowerNames(requested)}
         /\ LowerNames(TagNamesOfQuestion(db, last.questionId))
              = LowerNames(requested)

----------------------------------------------------------------------------
(* Claims about the delete cascade                                         *)

\* C6: after a successful deleteQuestion the question is gone, no bookmark
\* and no tag association references it, no vote targets it, none of its
\* answers exists and no vote targets any of those answers.
C6_DeleteCascadeComplete ==
    (last.op = "deleteQuestion" /\ last.ok) =>
      LET q == last.questionId IN
      /\ q \notin DOMAIN db.questions
      /\ \A c \in db.collections : c.question # q
      /\ \A r \in db.tagQuestions : r.question # q
      /\ \A v \in db.votes : ~(v.actionId = q /\ v.actionType = "question")
      /\ AnswersOf(db, q) = {}
      /\ \A a \in AnswersOf(last.pre, q) : a \notin DOMAIN db.answers
      /\ \A v \in db.votes :
            ~(v.actionType = "answer" /\ v.actionId \in AnswersOf(last.pre, q))

DeleteCascadeFailed(call) ==
    call.op = "deleteQuestion" /\ call.error = "Error"

\* C7: a deleteQuestion call in which a step of the cascade (or the commit)
\* throws leaves every collection exactly as it was before the call.
C7_DeleteCascadeAtomic ==
    [][(calls' = calls + 1 /\ DeleteCascadeFailed(last')) => db' = db]_vars

\* A cascade that failed in its middle (after the bookmark, association, tag
\* and question-vote steps) on a question that had a bookmark and votes.
C7_Witness ==
    /\ DeleteCascadeFailed(last)
    /\ last.failAt = 5
    /\ last.pre.collections # {}
    /\ last.pre.votes # {}
    /\ db = last.pre

----------------------------------------------------------------------------
(* Claims about reputation                                                 *)

\* The ledger table of the specification.
ActorDelta(action, actionType) ==
    CASE action = "upvote" -> 2 [] action = "downvote" -> -1 [] OTHER -> 0

OwnerDelta(action, actionType) ==
    CASE action = "upvote" -> 10
      [] action = "downvote" -> -2
      [] action = "post" /\ actionType = "question" -> 5
      [] action = "post" /\ actionType = "answer" -> 10
      [] action = "delete" /\ actionType = "question" -> -5
      [] action = "delete" /\ actionType = "answer" -> -10
      [] OTHER -> 0

\* C8: when the performer is the content author, a successful
\* createInteraction makes exactly one reputation update, of the actor
\* delta plus the owner delta of the action.
C8_SelfInteractionSumsDeltas ==
    (last.op = "createInteraction" /\ last.ok /\ last.userId = last.authorId) =>
      LET sum == ActorDelta(last.action, last.actionType)
                   + OwnerDelta(last.action, last.actionType)
      IN /\ Len(last.updates) = 1
         /\ last.updates[1].inc = sum
         /\ db.users[last.userId] = last.pre.users[last.userId] + sum

\* C9: when performer and content author differ, a successful
\* createInteraction changes the performer's reputation by the actor delta
\* and the author's by the owner delta of the table and no other user's; a
\* failed one changes no reputation and adds no Interaction.
C9_ReputationTable ==
    (last.op = "createInteraction" /\ last.userId # last.authorId) =>
      IF last.ok
      THEN /\ db.users[last.userId] = last.pre.users[last.userId]
                 + ActorDelta(last.action, last.actionType)
           /\ db.users[last.authorId] = last.pre.users[last.authorId]
                 + OwnerDelta(last.action, last.actionType)
           /\ \A u \in Users \ {last.userId, last.authorId} :
                 db.users[u] = last.pre.users[u]
           /\ Cardinality(db.interactions) = Cardinality(last.pre.interactions) + 1
      ELSE db = last.pre

\* A committed answer post by another user, after an earlier failed call.
C9_Witness ==
    /\ last.op = "createInteraction" /\ last.ok
    /\ last.userId # last.authorId
    /\ last.action = "post" /\ last.actionType = "answer"
    /\ db.users[last.authorId] = last.pre.users[last.authorId] + 10
    /\ prev.op = "createInteraction" /\ ~prev.ok

----------------------------------------------------------------------------
(* Author-only mutation                                                    *)

\* Questions are created, then edited and deleted by their author and by
\* the other user.
NextAuthor ==
    \/ /\ calls < MaxAuthorCalls
       /\ \E userId \in Users, text \in Texts, failAt \in {0, 1} :
             createQuestion(userId, text, << <<"j">> >>, Max(Clock(db)),
                            failAt, FALSE)
    \/ /\ calls < MaxAuthorCalls
       /\ \E userId \in Users, questionId \in QuestionIds, text \in Texts,
             tags \in {<< <<"j">> >>, << <<"J">>, <<"j", "s">> >>},
             failAt \in {0, 1} :
             editQuestion(userId, questionId, text, tags, failAt, FALSE)
    \/ /\ calls < MaxAuthorCalls
       /\ \E userId \in Users, questionId \in QuestionIds, failAt \in {0, 1} :
             deleteQuestion(userId, questionId, failAt, FALSE)

SpecAuthor == Init /\ [][NextAuthor]_vars

NonAuthorCall(call) ==
    /\ call.op \in {"editQuestion", "deleteQuestion"}
    /\ call.questionId \in DOMAIN call.pre.questions
    /\ call.pre.questions[call.questionId].author # call.userId

\* C11: editQuestion or deleteQuestion called by a user who is not the
\* author of an existing question answers with the Unauthorized failure (not
\* with not-found) and leaves every collection as it was before the call:
\* the question, its tag list, the tag reference counts, the associations,
\* the votes, the answers and the bookmarks.
C11_NonAuthorIsUnauthorized ==
    NonAuthorCall(last) =>
        /\ ~last.ok
        /\ last.error = "Unauthorized"
        /\ db = last.pre

\* A non-author's delete was refused and then a non-author's edit of a
\* tagged question was refused.
C11_Witness ==
    /\ NonAuthorCall(last) /\ last.op = "editQuestion"
    /\ NonAuthorCall(prev) /\ prev.op = "deleteQuestion"
    /\ last.pre.questions[last.questionId].tags # <<>>
    /\ last.tags # << <<"j">> >>

----------------------------------------------------------------------------
(* Tag associations                                                        *)

AssociationRows(d, tagId, questionId) ==
    {r \in d.tagQuestions : r.tag = tagId /\ r.question = questionId}

TagListEntries(d, tagId, questionId) ==
    {i \in 1..Len(d.questions[questionId].tags) :
        d.questions[questionId].tags[i] = tagId}

\* C12: in every committed state, an association row (tag, question) exists
\* exactly when the tag id is in the question's tag list, with exactly one
\* row per pair and exactly one tag-list entry per row.
C12_TagAssociationConsistent ==
    /\ \A r \in db.tagQuestions :
          /\ r.question \in DOMAIN db.questions
          /\ Cardinality(AssociationRows(db, r.tag, r.question)) = 1
          /\ Cardinality(TagListEntries(db, r.tag, r.question)) = 1
    /\ \A q \in DOMAIN db.questions :
          \A i \in 1..Len(db.questions[q].tags) :
             AssociationRows(db, db.questions[q].tags[i], q) # {}

----------------------------------------------------------------------------
(* Question lists and recommendations                                      *)

\* auth() found no signed-in user.
Anonymous == "anonymous"

\* `if (query)`: the empty string is no query.
NoQuery == <<>>

Filters == {"newest", "unanswered", "popular", "none", "recommended"}

\* The pages and page sizes requested; page 3 of size 2 lies past the end of
\* every list of the stores read.
Pages == 1..3
PageSizes == 1..2

\* .limit(50) on the interactions read by getRecommendedQuestions.
RecentLimit == 50

RecommendationKinds == {"view", "upvote", "bookmark", "post"}

\* Interaction.find({ user, actionType: "question", action: { $in: [...] } }).
QualifyingInteractions(d, userId) ==
    {i \in d.interactions : /\ i.user = userId
                            /\ i.actionType = "question"
                            /\ i.action \in RecommendationKinds}

\* .sort({ createdAt: -1 }).limit(50): the latest fifty of them.  The _id of
\* an interaction is its insertion sequence number, so later means larger.
RecentInteractions(d, userId) ==
    LET all == QualifyingInteractions(d, userId) IN
    {i \in all : Cardinality({j \in all : j._id > i._id}) < RecentLimit}

InteractedQuestionIds(d, userId) ==
    {i.actionId : i \in RecentInteractions(d, userId)}

\* The distinct tags of the interacted questions that still exist.
UniqueTagIds(d, userId) ==
    UNION {Range(d.questions[q].tags) :
              q \in InteractedQuestionIds(d, userId) \cap DOMAIN d.questions}

\* The tag condition left out of the query.
AnyTags(question, tagIds) == TRUE

\* tags: { $in: uniqueTagIds }: some tag of the question is among them.
SharesTag(question, tagIds) == Range(question.tags) \cap tagIds # {}

\* $or: [{ title: { $regex: query, $options: "i" } }, { content: ... }] for a
\* query made of letters: a case-insensitive substring match.
MatchesQuery(question, query) ==
    \/ query = NoQuery
    \/ includes(toLowerCase(question.title), toLowerCase(query))
    \/ includes(toLowerCase(question.content), toLowerCase(query))

\* recommendedQuery: not interacted, not the user's own, sharing a tag.
RecommendedQuery(d, userId, query) ==
    {q \in DOMAIN d.questions :
        /\ q \notin InteractedQuestionIds(d, userId)
        /\ d.questions[q].author # userId
        /\ SharesTag(d.questions[q], UniqueTagIds(d, userId))
        /\ MatchesQuery(d.questions[q], query)}

\* filterQuery of getQuestions for the other filters.
FilterQuery(d, query, filter) ==
    {q \in DOMAIN d.questions :
        /\ MatchesQuery(d.questions[q], query)
        /\ filter = "unanswered" => d.questions[q].answers = 0}

\* { upvotes: -1, views: -1 }: no key after views.
RecommendedBefore(d, a, b) ==
    \/ d.questions[a].upvotes > d.questions[b].upvotes
    \/ /\ d.questions[a].upvotes = d.questions[b].upvotes
       /\ d.questions[a].views > d.questions[b].views

\* { createdAt: -1, _id: 1 }
NewestBefore(d, a, b) ==
    \/ d.questions[a].createdAt > d.questions[b].createdAt
    \/ /\ d.questions[a].createdAt = d.questions[b].createdAt
       /\ a < b

\* { upvotes: -1, _id: 1 }
PopularBefore(d, a, b) ==
    \/ d.questions[a].upvotes > d.questions[b].upvotes
    \/ /\ d.questions[a].upvotes = d.questions[b].upvotes
       /\ a < b

SortBefore(d, filter, a, b) ==
    CASE filter = "recommended" -> RecommendedBefore(d, a, b)
      [] filter = "popular"     -> PopularBefore(d, a, b)
      [] OTHER                  -> NewestBefore(d, a, b)

\* .sort(criteria): the orders the store may return the matching documents
\* in.  Documents that are equal on every sort key come in any order, and
\* the order may differ from one query to the next.
SortedOrders(d, filter, S) ==
    {s \in [1..Cardinality(S) -> S] :
        /\ \A i, j \in 1..Cardinality(S) : i # j => s[i] # s[j]
        /\ \A i, j \in 1..Cardinality(S) :
              i < j => ~SortBefore(d, filter, s[j], s[i])}

\* .skip(skip).limit(limit)
SkipLimit(order, skip, limit) ==
    SubSeq(order, skip + 1, Min({Len(order), skip + limit}))

\* The page has a successor whenever it is full.
IsNextWhenFull(totalQuestions, skip, length) == totalQuestions >= skip + length

\* const isNext = totalQuestions > skip + questions.length
IsNext(totalQuestions, skip, length) == totalQuestions > skip + length

\* getRecommendedQuestions, with `order` the order the store returned.
getRecommendedQuestions(d, userId, query, skip, limit, order) ==
    LET totalQuestions == Cardinality(RecommendedQuery(d, userId, query))
        questions      == SkipLimit(order, skip, limit)
    IN [questions |-> questions, total |-> totalQuestions,
        isNext |-> IsNext(totalQuestions, skip, Len(questions))]

ListCall(viewer, page, pageSize, query, filter, data) ==
    [op |-> "getQuestions", viewer |-> viewer, page |-> page,
     pageSize |-> pageSize, query |-> query, filter |-> filter,
     ok |-> TRUE, error |-> "none", thrown |-> FALSE,
     questions |-> data.questions, total |-> data.total,
     isNext |-> data.isNext]

\* getQuestions.  `fails`: a store read throws; the try of lines 248-262
\* turns it into an error response, while nothing catches it on the
\* recommended path.
getQuestions(viewer, page, pageSize, query, filter, fails) ==
    LET skip  == (page - 1) * pageSize
        limit == pageSize
    IN
    /\ calls' = calls + 1
    /\ prev' = last
    /\ UNCHANGED <<db, pendingVoteCounts, afterTasks, txns, nextId>>
    /\ IF filter = "recommended" /\ viewer = Anonymous
       THEN /\ ~fails
            /\ last' = ListCall(viewer, page, pageSize, query, filter,
                                [questions |-> <<>>, total |-> 0,
                                 isNext |-> FALSE])
       ELSE IF fails
       THEN /\ page = 1 /\ pageSize = 1 /\ query = NoQuery
            /\ last' = [op |-> "getQuestions", viewer |-> viewer,
                        filter |-> filter, ok |-> FALSE, error |-> "Error",
                        thrown |-> (filter = "recommended")]
       ELSE IF filter = "recommended"
       THEN \E order \in SortedOrders(db, filter,
                                      RecommendedQuery(db, viewer, query)) :
               last' = ListCall(viewer, page, pageSize, query, filter,
                                getRecommendedQuestions(db, viewer, query,
                                                        skip, limit, order))
       ELSE \E order \in SortedOrders(db, filter,
                                      FilterQuery(db, query, filter)) :
               LET totalQuestions == Cardinality(FilterQuery(db, query, filter))
                   questions      == SkipLimit(order, skip, limit)
               IN last' = ListCall(viewer, page, pageSize, query, filter,
                              [questions |-> questions,
                               total |-> totalQuestions,
                               isNext |-> IsNext(totalQuestions, skip,
                                                 Len(questions))])

\* The questions a store read by the lists can hold: question 1 of the
\* initial store and three questions of u2, two of them equal on every sort
\* key but _id.
ReadQuestions ==
    (1 :> InitDb.questions[1])
    @@ (5 :> [author |-> "u2", title |-> <<"s">>, content |-> <<"s">>,
              tags |-> <<8>>, upvotes |-> 0, downvotes |-> 0, views |-> 0,
              answers |-> 0, createdAt |-> 2, __v |-> 0])
    @@ (6 :> [author |-> "u2", title |-> <<"j">>, content |-> <<"s">>,
              tags |-> <<2>>, upvotes |-> 0, downvotes |-> 0, views |-> 0,
              answers |-> 0, createdAt |-> 2, __v |-> 0])
    @@ (7 :> [author |-> "u2", title |-> <<"j">>, content |-> <<"s">>,
              tags |-> <<2, 8>>, upvotes |-> 0, downvotes |-> 0, views |-> 1,
              answers |-> 0, createdAt |-> 3, __v |-> 0])

ReadQuestionSets == {{1}, {1, 5, 6, 7}}

\* Interaction histories of u1, oldest first: none; a view of the own
\* question 1; a view of question 7; a view of question 7 followed by fifty
\* views of question 6.
ReadHistories ==
    {<<>>, <<1>>, <<7>>, <<7>> \o [i \in 1..RecentLimit |-> 6]}

ReadStore(ids, history) ==
    LET questions == [q \in ids |-> ReadQuestions[q]]
        rows == {[q |-> q, i |-> i] :
                    q \in ids, i \in 1..2} IN
    [questions    |-> questions,
     answers      |-> InitDb.answers,
     tags         |-> [t \in {2, 8} |->
                         [name |-> IF t = 2 THEN <<"j", "s">> ELSE <<"j">>,
                          questions |-> Cardinality(
                              {q \in ids : t \in Range(questions[q].tags)})]],
     tagQuestions |-> {[_id |-> 10 * r.q + r.i, tag |-> questions[r.q].tags[r.i],
                        question |-> r.q] :
                          r \in {x \in rows : x.i <= Len(questions[x.q].tags)}},
     votes        |-> {},
     collections  |-> {},
     users        |-> [u \in Users |-> 0],
     interactions |-> {[_id |-> 100 + k, action |-> "view",
                        actionId |-> history[k], actionType |-> "question",
                        user |-> "u1"] : k \in 1..Len(history)}]

InitRead ==
    /\ \E ids \in ReadQuestionSets, history \in ReadHistories :
          db = ReadStore(ids, history)
    /\ pendingVoteCounts = {}
    /\ afterTasks = {}
    /\ txns = {}
    /\ nextId = 200
    /\ calls = 0
    /\ last = NoCall
    /\ prev = NoCall

NextRead ==
    /\ calls < MaxReadCalls
    /\ \E viewer \in {"u1", Anonymous}, page \in Pages,
          pageSize \in PageSizes, query \in {NoQuery, <<"J">>},
          filter \in Filters, fails \in BOOLEAN :
          getQuestions(viewer, page, pageSize, query, filter, fails)

SpecRead == InitRead /\ [][NextRead]_vars

\* The same lists read page after page.
NextPaging ==
    /\ calls < MaxPagingCalls
    /\ \E viewer \in {"u1", Anonymous}, page \in Pages,
          pageSize \in PageSizes, query \in {NoQuery, <<"J">>},
          filter \in Filters, fails \in BOOLEAN :
          getQuestions(viewer, page, pageSize, query, filter, fails)

SpecPaging == InitRead /\ [][NextPaging]_vars

----------------------------------------------------------------------------
(* Claims about lists and recommendations                                  *)

RecommendedCall(call) ==
    /\ call.op = "getQuestions"
    /\ call.filter = "recommended"
    /\ call.viewer # Anonymous
    /\ call.ok

\* C13: getRecommendedQuestions never returns a question the user has an
\* interaction of the kinds view, upvote, bookmark or post with, however
\* long the history, and never a question the user wrote.
C13_RecommendationExcludesSeen ==
    RecommendedCall(last) =>
        \A q \in Range(last.questions) :
            /\ db.questions[q].author # last.viewer
            /\ q \notin {i.actionId : i \in QualifyingInteractions(db, last.viewer)}

\* The questions a list call matches, read from the store.
MatchingQuestions(d, call) ==
    IF call.filter # "recommended" THEN FilterQuery(d, call.query, call.filter)
    ELSE IF call.viewer = Anonymous THEN {}
    ELSE RecommendedQuery(d, call.viewer, call.query)

\* C14: for every filter, page p >= 1 and page size s >= 1, getQuestions
\* answers isNext = false exactly when the number of matching questions is
\* at most p * s, pages past the end included.
C14_IsNextIffMoreThanPageEnd ==
    (last.op = "getQuestions" /\ last.ok) =>
        (~last.isNext <=>
            Cardinality(MatchingQuestions(db, last)) <= last.page * last.pageSize)

\* A full last page of the recommended list: it ends exactly at the end of
\* the list and isNext is false.
C14_Witness ==
    /\ RecommendedCall(last)
    /\ last.page > 1
    /\ last.total = last.page * last.pageSize /\ ~last.isNext
    /\ Len(last.questions) = last.pageSize

\* C15: on unchanged data, page k and page k + 1 of the same list (same
\* viewer, filter, query and page size) have no question in common, ties on
\* the sort keys included.
C15_SuccessivePagesDisjoint ==
    (/\ last.op = "getQuestions" /\ last.ok
     /\ prev.op = "getQuestions" /\ prev.ok
     /\ last.viewer = prev.viewer /\ last.filter = prev.filter
     /\ last.query = prev.query /\ last.pageSize = prev.pageSize
     /\ last.page = prev.page + 1)
    => Range(prev.questions) \cap Range(last.questions) = {}

\* C20: getRecommendedQuestions returns an empty result, not an error, for a
\* user without qualifying interaction; otherwise every question returned
\* shares a tag with a question of one of the user's qualifying
\* interactions.  (A store read that throws is not the claim's case.)
C20_RecommendationSharesTag ==
    (/\ last.op = "getQuestions" /\ last.filter = "recommended"
     /\ last.viewer # Anonymous
     /\ last.error # "Error") =>
        /\ last.ok /\ ~last.thrown
        /\ QualifyingInteractions(db, last.viewer) = {} => last.questions = <<>>
        /\ \A q \in Range(last.questions) :
              \E i \in QualifyingInteractions(db, last.viewer) :
                 /\ i.actionId \in DOMAIN db.questions
                 /\ Range(db.questions[q].tags)
                       \cap Range(db.questions[i.actionId].tags) # {}

\* A recommendation list with a question in it, while a question of another
\* author shares no tag with the history and is left out.
C20_Witness ==
    /\ RecommendedCall(last)
    /\ last.questions # <<>>
    /\ \E q \in DOMAIN db.questions :
          /\ db.questions[q].author # last.viewer
          /\ q \notin InteractedQuestionIds(db, last.viewer)
          /\ q \notin RecommendedQuery(db, last.viewer, last.query)
          /\ MatchesQuery(db.questions[q], last.query)

----------------------------------------------------------------------------
(* View counter                                                            *)

\* incrementViews: no transaction.  The question is read, a missing one
\* throws NotFoundError inside the try, its views are incremented in memory
\* and saved.  `fails`: a store call throws; the catch answers with an error.
incrementViews(questionId, fails) ==
    /\ calls' = calls + 1
    /\ prev' = last
    /\ UNCHANGED <<pendingVoteCounts, afterTasks, txns, nextId>>
    /\ IF fails
       THEN /\ UNCHANGED db
            /\ last' = [op |-> "incrementViews", questionId |-> questionId,
                        ok |-> FALSE, error |-> "Error", thrown |-> FALSE,
                        pre |-> db]
       ELSE IF questionId \notin DOMAIN db.questions
       THEN /\ UNCHANGED db
            /\ last' = [op |-> "incrementViews", questionId |-> questionId,
                        ok |-> FALSE, error |-> "NotFound", thrown |-> FALSE,
                        pre |-> db]
       ELSE /\ db' = [db EXCEPT !.questions[questionId].views = @ + 1]
            /\ last' = [op |-> "incrementViews", questionId |-> questionId,
                        ok |-> TRUE, error |-> "none", thrown |-> FALSE,
                        views |-> db.questions[questionId].views + 1,
                        pre |-> db]

----------------------------------------------------------------------------
(* Responses of the public operations                                      *)

\* Every public operation, on question 1 and on a question that does not
\* exist, with store calls that may throw and aborts that succeed.
NextResult ==
    \/ /\ calls < MaxResultCalls
       /\ \E userId \in Users, text \in Texts, failAt \in {0, 1} :
             createQuestion(userId, text, << <<"j">> >>, Max(Clock(db)),
                            failAt, FALSE)
    \/ /\ calls < MaxResultCalls
       /\ \E userId \in Users, questionId \in {1, MissingId}, failAt \in {0, 1} :
             editQuestion(userId, questionId, [title |-> <<"j">>, content |-> <<"s">>],
                          << <<"j">> >>, failAt, FALSE)
    \/ /\ calls < MaxResultCalls
       /\ \E userId \in Users, questionId \in {1, MissingId}, failAt \in {0, 1} :
             deleteQuestion(userId, questionId, failAt, FALSE)
    \/ /\ calls < MaxResultCalls
       /\ \E userId \in Users, t \in VoteTargets, fails \in BOOLEAN :
             createVote(userId, t[1], t[2], "upvote", fails, FALSE)
    \/ /\ calls < MaxResultCalls
       /\ \E userId \in Users, actionId \in {1, MissingId}, failAt \in {0, 1} :
             createInteraction(userId, "view", actionId, "question", "u1",
                               failAt, FALSE)
    \/ /\ calls < MaxResultCalls
       /\ \E userId \in Users, questionId \in {1, MissingId} :
             toggleSaveQuestion(userId, questionId)
    \/ /\ calls < MaxResultCalls
       /\ \E questionId \in {1, MissingId}, fails \in BOOLEAN :
             incrementViews(questionId, fails)
    \/ \E p \in pendingVoteCounts : updateVoteCountApplied(p)
    \/ \E p \in pendingVoteCounts : updateVoteCountRejected(p)

SpecResult == Init /\ [][NextResult]_vars

\* C16: every public operation (createQuestion, editQuestion,
\* deleteQuestion, createVote, createInteraction, toggleSaveQuestion,
\* incrementViews) reports a referenced question that is not found as a
\* structured failure result; none lets it escape as a raised fault.
C16_NotFoundIsStructuredFailure ==
    (last.op # "none" /\ last.error = "NotFound") => ~last.thrown

----------------------------------------------------------------------------
(* Release of sessions                                                     *)

TransactionalOps ==
    {"createQuestion", "editQuestion", "deleteQuestion", "createVote",
     "createInteraction"}

\* The five handlers that start a session, with store calls, commits and
\* aborts that may throw.
NextSession ==
    \/ /\ calls < MaxSessionCalls
       /\ \E userId \in Users, failAt \in FailAts, abortThrows \in BOOLEAN :
             createQuestion(userId, [title |-> <<"j">>, content |-> <<"s">>],
                            << <<"j">> >>, Max(Clock(db)), failAt, abortThrows)
    \/ /\ calls < MaxSessionCalls
       /\ \E userId \in Users, questionId \in {1, MissingId},
             failAt \in FailAts, abortThrows \in BOOLEAN :
             editQuestion(userId, questionId, [title |-> <<"s">>, content |-> <<"s">>],
                          << <<"j">> >>, failAt, abortThrows)
    \/ /\ calls < MaxSessionCalls
       /\ \E userId \in Users, questionId \in {1, MissingId},
             failAt \in FailAts, abortThrows \in BOOLEAN :
             deleteQuestion(userId, questionId, failAt, abortThrows)
    \/ /\ calls < MaxSessionCalls
       /\ \E userId \in Users, fails \in BOOLEAN, abortThrows \in BOOLEAN :
             createVote(userId, 1, "question", "upvote", fails, abortThrows)
    \/ /\ calls < MaxSessionCalls
       /\ \E userId \in Users, failAt \in FailAts, abortThrows \in BOOLEAN :
             createInteraction(userId, "view", 1, "question", "u1", failAt,
                               abortThrows)
    \/ \E p \in pendingVoteCounts : updateVoteCountApplied(p)
    \/ \E p \in pendingVoteCounts : updateVoteCountRejected(p)

SpecSession == Init /\ [][NextSession]_vars

\* C17: on every exit path of createQuestion, editQuestion, deleteQuestion,
\* createVote and createInteraction (normal return, a failing step, a
\* failing commit, a failing abort) the transaction has ended committed or
\* aborted and the session has been ended.
C17_SessionAlwaysReleased ==
    last.op \in TransactionalOps =>
        /\ last.session.ended
        /\ last.session.transaction \in {"committed", "aborted"}

----------------------------------------------------------------------------
(* Interleaved transactions.  A transaction reads the snapshot of the store *)
(* taken when it starts, overlaid with its own writes; its writes reach the *)
(* store at commit.  A write to a document that another transaction has     *)
(* changed since the snapshot is a write conflict and throws.               *)

FunctionCollections == {"questions", "answers", "tags", "users"}
SetCollections == {"tagQuestions", "votes", "collections", "interactions"}

\* The documents of collection c that the transaction wrote or deleted.
Written(snapshot, work, c) ==
    {k \in (DOMAIN snapshot[c]) \cup (DOMAIN work[c]) :
        \/ k \notin DOMAIN snapshot[c]
        \/ k \notin DOMAIN work[c]
        \/ work[c][k] # snapshot[c][k]}

\* A document the transaction wrote existed in its snapshot and is no
\* longer the same in the store.
WriteConflict(d, snapshot, work) ==
    \/ \E c \in FunctionCollections :
          \E k \in Written(snapshot, work, c) \cap DOMAIN snapshot[c] :
             k \notin DOMAIN d[c] \/ d[c][k] # snapshot[c][k]
    \/ \E c \in SetCollections :
          \E r \in snapshot[c] \ work[c] : r \notin d[c]

\* session.commitTransaction() of an interleaved transaction: its writes, and
\* only they, are applied to the store as it is now.
CommitWrites(d, snapshot, work) ==
    [c \in DOMAIN d |->
        IF c \in FunctionCollections
        THEN [k \in ((DOMAIN d[c]) \ Written(snapshot, work, c))
                      \cup (Written(snapshot, work, c) \cap DOMAIN work[c]) |->
                 IF k \in Written(snapshot, work, c) THEN work[c][k] ELSE d[c][k]]
        ELSE (d[c] \ (snapshot[c] \ work[c])) \cup (work[c] \ snapshot[c])]

\* createQuestion up to `await session.commitTransaction()`: the session is
\* started and the writes are made against the snapshot.
createQuestionBegin(userId, text, tags, now) ==
    LET w == CreateQuestionWork(db, nextId, userId, text, tags, now) IN
    /\ calls' = calls + 1
    /\ nextId' = w.id
    /\ txns' = txns \cup {[call |-> calls + 1, userId |-> userId, text |-> text,
                           tags |-> tags, questionId |-> w.questionId,
                           snapshot |-> db, work |-> w.trace[Len(w.trace)]]}
    /\ UNCHANGED <<db, pendingVoteCounts, afterTasks, last, prev>>

\* createQuestion from `await session.commitTransaction()` on.  `fails`: the
\* commit throws.  A write conflict throws as well; the catch aborts.
createQuestionEnd(t, fails) ==
    LET failed == fails \/ WriteConflict(db, t.snapshot, t.work) IN
    /\ t \in txns
    /\ txns' = txns \ {t}
    /\ prev' = last
    /\ db' = IF failed THEN abortTransaction(db, t.work)
             ELSE CommitWrites(db, t.snapshot, commitTransaction(t.snapshot, t.work))
    /\ afterTasks' = afterTasks \cup
                        PostInteractionTask(~failed, t.questionId, t.userId)
    /\ last' = [op |-> "createQuestion", userId |-> t.userId, text |-> t.text,
                tags |-> t.tags, questionId |-> t.questionId, ok |-> ~failed,
                error |-> IF failed THEN "Error" ELSE "none",
                thrown |-> Escapes(failed, FALSE),
                session |-> ExitWithFinally(failed, FALSE),
                abortedAfterCommit |-> FALSE,
                pre |-> db]
    /\ UNCHANGED <<pendingVoteCounts, nextId, calls>>

\* Two createQuestion calls whose transactions may overlap.
NextConcurrent ==
    \/ /\ calls < MaxConcurrentCalls
       /\ \E userId \in Users, text \in Texts,
             tags \in {<< <<"j">> >>, << <<"J">> >>, << <<"j", "s">> >>},
             now \in Clock(db) :
             createQuestionBegin(userId, text, tags, now)
    \/ \E t \in txns, fails \in BOOLEAN : createQuestionEnd(t, fails)

SpecConcurrent == Init /\ [][NextConcurrent]_vars

CaseVariantTags(d) ==
    {p \in (DOMAIN d.tags) \X (DOMAIN d.tags) :
        /\ p[1] # p[2]
        /\ toLowerCase(d.tags[p[1]].name) = toLowerCase(d.tags[p[2]].name)}

\* C18: when transactions find-or-create a tag of the same name up to case
\* concurrently, the committed store never holds two Tag rows with names
\* equal up to case; when two creations of a new name both commit, there is
\* one Tag row of that name and its count is 2.
C18_ConcurrentFindOrCreate ==
    /\ CaseVariantTags(db) = {}
    /\ (/\ last.op = "createQuestion" /\ last.ok
        /\ prev.op = "createQuestion" /\ prev.ok
        /\ Len(last.tags) = 1 /\ Len(prev.tags) = 1
        /\ RegexMatchesTag(last.tags[1], prev.tags[1])
        /\ ~ \E t \in DOMAIN InitDb.tags :
                RegexMatchesTag(InitDb.tags[t].name, last.tags[1]))
       => \E t \in DOMAIN db.tags :
             /\ RegexMatchesTag(db.tags[t].name, last.tags[1])
             /\ db.tags[t].questions = 2

----------------------------------------------------------------------------
(* Post-commit side effect of createQuestion                               *)

\* The callback registered with after() runs once the response has been
\* sent: createInteraction({ action: "post", actionId: the question,
\* actionTarget: "question", authorId: userId }) as the same user.  Its
\* response is not read.
afterCreateQuestion(task, failAt) ==
    LET trace == CreateInteractionWork(db, nextId, task.userId, "post",
                                       task.questionId, "question", task.userId) IN
    /\ task \in afterTasks
    /\ failAt \in FailPoints(trace)
    /\ afterTasks' = afterTasks \ {task}
    /\ db' = Outcome(db, trace, failAt)
    /\ nextId' = IF failAt = 0 THEN nextId + 1 ELSE nextId
    /\ UNCHANGED <<pendingVoteCounts, txns, calls, last, prev>>

NextPost ==
    \/ /\ calls < MaxPostCalls
       /\ \E userId \in Users, text \in Texts,
             tags \in {<< <<"j">> >>, << <<"j">>, <<"j", "s">> >>},
             failAt \in FailAts :
             createQuestion(userId, text, tags, Max(Clock(db)), failAt, FALSE)
    \/ \E task \in afterTasks, failAt \in FailAts :
          afterCreateQuestion(task, failAt)

SpecPost == Init /\ [][NextPost]_vars

\* C19: createQuestion issues the 'post' interaction only after its
\* transaction has committed and never for a creation that aborted; a
\* failure of that interaction neither undoes the committed question nor
\* changes the success result of createQuestion.
C19_PostInteractionAfterCommit ==
    [][/\ \A task \in afterTasks' \ afterTasks :
             /\ last'.op = "createQuestion" /\ last'.ok
             /\ calls' = calls + 1
             /\ task.questionId = last'.questionId
             /\ task.questionId \in DOMAIN db'.questions
       /\ db'.interactions # db.interactions =>
             /\ afterTasks' # afterTasks
             /\ afterTasks' \subseteq afterTasks
       /\ (afterTasks' # afterTasks /\ afterTasks' \subseteq afterTasks) =>
             /\ last' = last
             /\ db'.questions = db.questions
             /\ db'.tags = db.tags
             /\ db'.tagQuestions = db.tagQuestions
             /\ db'.interactions = db.interactions => db' = db]_vars

\* The callback of a committed creation has run and failed: the question is
\* in the store, no interaction is, and the last response is the success of
\* createQuestion.
C19_Witness ==
    /\ last.op = "createQuestion" /\ last.ok
    /\ prev.op = "createQuestion" /\ ~prev.ok
    /\ afterTasks = {}
    /\ db.interactions = {}
    /\ last.questionId \in DOMAIN db.questions

----------------------------------------------------------------------------
(* Reputation ledger among the other operations                            *)

\* createInteraction next to the handlers that write no reputation
\* themselves: createQuestion and its after() callback, createVote,
\* toggleSaveQuestion and deleteQuestion.
NextLedger ==
    \/ /\ calls < MaxLedgerCalls
       /\ \E userId \in Users, authorId \in Users,
             action \in {"upvote", "downvote", "post", "view"},
             failAt \in FailAts :
             createInteraction(userId, action, 1, "question", authorId,
                               failAt, FALSE)
    \/ /\ calls < MaxLedgerCalls
       /\ \E userId \in Users, failAt \in {0, 1} :
             createQuestion(userId, [title |-> <<"j">>, content |-> <<"s">>],
                            << <<"j">> >>, Max(Clock(db)), failAt, FALSE)
    \/ \E task \in afterTasks, failAt \in FailAts :
          afterCreateQuestion(task, failAt)
    \/ /\ calls < MaxLedgerCalls
       /\ \E userId \in Users, fails \in BOOLEAN :
             createVote(userId, 1, "question", "upvote", fails, FALSE)
    \/ \E p \in pendingVoteCounts : updateVoteCountApplied(p)
    \/ \E p \in pendingVoteCounts : updateVoteCountRejected(p)
    \/ /\ calls < MaxLedgerCalls
       /\ \E userId \in Users : toggleSaveQuestion(userId, 1)
    \/ /\ calls < MaxLedgerCalls
       /\ \E userId \in Users, failAt \in {0, 1} :
             deleteQuestion(userId, 1, failAt, FALSE)

SpecLedger == Init /\ [][NextLedger]_vars

\* The ledger deltas of one interaction for user u: the actor delta when u
\* performed it plus the owner delta when u owns the content.
LedgerDelta(u, performerId, authorId, action, actionType) ==
    (IF u = performerId THEN ActorDelta(action, actionType) ELSE 0)
    + (IF u = authorId THEN OwnerDelta(action, actionType) ELSE 0)

\* A step that commits no Interaction row changes no reputation, and a step
\* that commits one changes every user's reputation by the ledger deltas of
\* that row, in the same commit.  The content author of a row is the
\* authorId of the call that made it; for the callback of createQuestion it
\* is the creating user.
LedgerStep ==
    LET added == db'.interactions \ db.interactions IN
    /\ added = {} => db'.users = db.users
    /\ \A r \in added :
          LET authorId == IF calls' = calls + 1 THEN last'.authorId
                                                ELSE r.user
          IN \A u \in Users :
                db'.users[u] = db.users[u]
                   + LedgerDelta(u, r.user, authorId, r.action, r.actionType)

\* C21: in every committed state each user's reputation is the sum of the
\* ledger deltas of the committed Interaction records that involve the
\* user: it is so initially (no record, reputation 0) and every step keeps
\* it so, createInteraction committing the row and its deltas together or
\* not at all and no other operation writing reputation.
C21_ReputationLedger == [][LedgerStep]_vars

----------------------------------------------------------------------------
(* Order of the counter update and the commit in createVote                *)

\* C22: when createVote returns success, the counter update it issued
\* through updateVoteCount has completed, inside the transaction, before the
\* commit: none of this call is still in flight; and when the target does
\* not exist, so that the counter update fails, createVote returns a
\* failure and commits no change of the Vote rows.
C22_CounterUpdateBeforeCommit ==
    last.op = "createVote" =>
        /\ last.ok => ~ \E p \in pendingVoteCounts : p.call = calls
        /\ ~TargetExists(last.pre, last.targetId, last.targetType) =>
              /\ ~last.ok
              /\ db.votes = last.pre.votes

----------------------------------------------------------------------------
(* Overlapping editQuestion calls.  The handler suspends at every store    *)
(* call: the question is read without the session, the session's first     *)
(* operation takes the transaction's snapshot, and the writes reach the    *)
(* store at commit.                                                        *)

\* editQuestion up to the author check: the question and its populated
\* tags are read from the committed store.
editQuestionRead(userId, questionId, text, tags) ==
    /\ calls' = calls + 1
    /\ UNCHANGED <<pendingVoteCounts, afterTasks, nextId>>
    /\ IF questionId \notin DOMAIN db.questions
       THEN /\ db' = abortTransaction(db, db)
            /\ prev' = last
            /\ last' = EditCall(userId, questionId, text, tags, "NotFound",
                                FALSE, <<>>, <<>>)
            /\ UNCHANGED txns
       ELSE IF ~IsAuthor(db, questionId, userId)
       THEN /\ db' = abortTransaction(db, db)
            /\ prev' = last
            /\ last' = EditCall(userId, questionId, text, tags, "Unauthorized",
                                FALSE, <<>>, <<>>)
            /\ UNCHANGED txns
       ELSE /\ txns' = txns \cup
                 {[call |-> calls + 1, phase |-> "read", userId |-> userId,
                   questionId |-> questionId, text |-> text, tags |-> tags,
                   read |-> db, snapshot |-> db, work |-> db,
                   tagsToAdd |-> <<>>, tagsToRemove |-> <<>>]}
            /\ UNCHANGED <<db, last, prev>>

\* editQuestion from its first write to the last `question.save`: the
\* writes are made against the snapshot taken now, from the question read
\* before.  A VersionError of the last save lands in the catch, which
\* aborts.
editQuestionWrite(t) ==
    LET w == EditQuestionWrites(t.read, db, nextId, t.questionId, t.text, t.tags) IN
    /\ t \in txns
    /\ t.phase = "read"
    /\ UNCHANGED <<pendingVoteCounts, afterTasks, calls>>
    /\ IF w.versionError
       THEN /\ txns' = txns \ {t}
            /\ db' = abortTransaction(db, w.trace[Len(w.trace)])
            /\ prev' = last
            /\ last' = EditCall(t.userId, t.questionId, t.text, t.tags, "Error",
                                FALSE, w.tagsToAdd, w.tagsToRemove)
            /\ UNCHANGED nextId
       ELSE /\ txns' = (txns \ {t}) \cup
                 {[t EXCEPT !.phase = "written", !.snapshot = db,
                            !.work = w.trace[Len(w.trace)],
                            !.tagsToAdd = w.tagsToAdd,
                            !.tagsToRemove = w.tagsToRemove]}
            /\ nextId' = w.id
            /\ UNCHANGED <<db, last, prev>>

\* editQuestion from `await session.commitTransaction()` on.  `fails`: the
\* commit throws.  A write conflict throws as well; the catch aborts.
editQuestionEnd(t, fails) ==
    LET failed == fails \/ WriteConflict(db, t.snapshot, t.work) IN
    /\ t \in txns
    /\ t.phase = "written"
    /\ txns' = txns \ {t}
    /\ prev' = last
    /\ db' = IF failed THEN abortTransaction(db, t.work)
             ELSE CommitWrites(db, t.snapshot, commitTransaction(t.snapshot, t.work))
    /\ last' = EditCall(t.userId, t.questionId, t.text, t.tags,
                        IF failed THEN "Error" ELSE "none", FALSE,
                        t.tagsToAdd, t.tagsToRemove)
    /\ UNCHANGED <<pendingVoteCounts, afterTasks, nextId, calls>>

\* The tag lists requested by the overlapping edits: "j" keeps no tag of a
\* question tagged "js", "js" keeps it.
EditTagLists == {<< <<"j">> >>, << <<"j", "s">> >>}

\* editQuestion calls on question 1 whose steps may interleave.
NextEdits ==
    \/ /\ calls < MaxEditCalls
       /\ \E userId \in Users, text \in Texts, tags \in EditTagLists :
             editQuestionRead(userId, 1, text, tags)
    \/ \E t \in txns : editQuestionWrite(t)
    \/ \E t \in txns, fails \in BOOLEAN : editQuestionEnd(t, fails)

SpecEdits == Init /\ [][NextEdits]_vars

\* The tags of the initial store named in both lists of removed names.
RemovedByBoth(a, b) ==
    {t \in DOMAIN InitDb.tags :
        /\ InitDb.tags[t].name \in Range(a.tagsToRemove)
        /\ InitDb.tags[t].name \in Range(b.tagsToRemove)}

\* C23: when two overlapping editQuestion calls on the same question both
\* remove the same tag T, T's count is decremented at most once by the
\* edits that commit: after both have returned, the count is not lower than
\* one below the count before the first of them returned.
C23_SharedRemovalDecrementsOnce ==
    (/\ last.op = "editQuestion" /\ prev.op = "editQuestion"
     /\ last.questionId = prev.questionId)
    => \A t \in RemovedByBoth(last, prev) :
          /\ db.tags[t].questions >= prev.pre.tags[t].questions - 1
          /\ (last.ok /\ prev.ok) =>
                db.tags[t].questions = prev.pre.tags[t].questions - 1

\* The second of two overlapping removals of "js" has been refused after the
\* first committed.
C23_Witness ==
    /\ last.op = "editQuestion" /\ prev.op = "editQuestion"
    /\ RemovedByBoth(last, prev) # {}
    /\ prev.ok /\ ~last.ok
    /\ db.tags[2].questions = prev.pre.tags[2].questions - 1

----------------------------------------------------------------------------
(* Failing steps of createQuestion and editQuestion                        *)

\* The tag lists requested: "sj" is new to a question tagged "js".
AtomicTagLists == EditTagLists \cup {<< <<"s", "j">> >>}

\* createQuestion and editQuestion by the author of question 1, each write
\* and the commit failing in turn.
NextAtomic ==
    \/ /\ calls < MaxAtomicCalls
       /\ \E text \in Texts, tags \in AtomicTagLists, now \in Clock(db),
             failAt \in FailAts, abortThrows \in BOOLEAN :
             createQuestion("u1", text, tags, now, failAt, abortThrows)
    \/ /\ calls < MaxAtomicCalls
       /\ \E text \in Texts, tags \in AtomicTagLists,
             failAt \in FailAts, abortThrows \in BOOLEAN :
             editQuestion("u1", 1, text, tags, failAt, abortThrows)

SpecAtomic == Init /\ [][NextAtomic]_vars

\* C24: when a step of createQuestion or editQuestion fails after the
\* transaction began (a tag upsert, an association insert or delete, a count
\* update, a question save, the commit), the store is exactly as it was
\* before the call: no new Question or Tag, no changed count, association,
\* title, content or tag list.
C24_FailedWriteLeavesStore ==
    (last.op \in {"createQuestion", "editQuestion"} /\ ~last.ok) => db = last.pre

\* An editQuestion that changed the text, added a tag and removed one has
\* failed, and a createQuestion has failed before it.
C24_Witness ==
    /\ last.op = "editQuestion" /\ ~last.ok
    /\ last.text.title # last.pre.questions[1].title
    /\ last.tagsToAdd # <<>> /\ last.tagsToRemove # <<>>
    /\ prev.op = "createQuestion" /\ ~prev.ok
    /\ db = last.pre

----------------------------------------------------------------------------
(* Reported outcome against committed outcome                              *)

\* createQuestion, editQuestion and deleteQuestion by the author of
\* question 1, with a write, the commit or a statement after the commit
\* throwing.
NextOutcome ==
    \/ /\ calls < MaxOutcomeCalls
       /\ \E text \in Texts, tags \in EditTagLists, failAt \in FailAts,
             afterThrows \in BOOLEAN :
             createQuestionThen("u1", text, tags, Max(Clock(db)), failAt, FALSE,
                                afterThrows)
    \/ /\ calls < MaxOutcomeCalls
       /\ \E text \in Texts, tags \in EditTagLists, failAt \in FailAts :
             editQuestion("u1", 1, text, tags, failAt, FALSE)
    \/ /\ calls < MaxOutcomeCalls
       /\ \E userId \in Users, failAt \in FailAts, revalidateThrows \in BOOLEAN :
             deleteQuestionThen(userId, 1, failAt, FALSE, revalidateThrows)

SpecOutcome == Init /\ [][NextOutcome]_vars

\* C25: whenever createQuestion, editQuestion or deleteQuestion answers
\* with a failure or throws, the store is as it was before the call, and
\* abortTransaction has not been called on a committed transaction.
C25_FailureMeansNothingCommitted ==
    (/\ last.op \in {"createQuestion", "editQuestion", "deleteQuestion"}
     /\ ~last.ok \/ last.thrown)
    => /\ db = last.pre
       /\ ~last.abortedAfterCommit

----------------------------------------------------------------------------
(* Tag reference counts over sequences of question mutations               *)

\* createQuestion, editQuestion and deleteQuestion by the author, one after
\* the other, with every tag list and a failing first write.
NextCounts ==
    \/ /\ calls < MaxCountCalls
       /\ \E tags \in TagLists, failAt \in {0, 1} :
             createQuestion("u1", [title |-> <<"j">>, content |-> <<"s">>], tags,
                            Max(Clock(db)), failAt, FALSE)
    \/ /\ calls < MaxCountCalls
       /\ \E questionId \in DOMAIN db.questions, tags \in TagLists,
             failAt \in {0, 1} :
             editQuestion("u1", questionId, [title |-> <<"j">>, content |-> <<"s">>],
                          tags, failAt, FALSE)
    \/ /\ calls < MaxCountCalls
       /\ \E questionId \in DOMAIN db.questions, failAt \in {0, 1} :
             deleteQuestion("u1", questionId, failAt, FALSE)

SpecCounts == Init /\ [][NextCounts]_vars

\* C26: in every committed state reached by a sequence of createQuestion,
\* editQuestion and deleteQuestion calls, tag lists naming one tag twice up
\* to case included, every Tag's reference count is at least zero.
C26_CountsNeverNegative ==
    \A t \in DOMAIN db.tags : db.tags[t].questions >= 0

\* A question created with the list "j", "J" has been deleted: both names
\* were counted on one tag, which the deletion decremented once.
C26_Witness ==
    /\ prev.op = "createQuestion" /\ prev.ok
    /\ prev.tags = << <<"j">>, <<"J">> >>
    /\ last.op = "deleteQuestion" /\ last.ok
    /\ last.questionId = prev.questionId
    /\ \E t \in DOMAIN db.tags : db.tags[t].name = <<"j">> /\ db.tags[t].questions = 1

----------------------------------------------------------------------------
(* Overlapping incrementViews calls.  The handler suspends at its two store *)
(* calls, the read and the save; neither carries a session.                 *)

ViewsCall(questionId, error, views, pre) ==
    [op |-> "incrementViews", questionId |-> questionId, ok |-> error = "none",
     error |-> error, thrown |-> FALSE, views |-> views, pre |-> pre]

\* incrementViews up to `question.views += 1`: the question is read; a
\* failing read and a missing question answer with an error.
incrementViewsRead(questionId, fails) ==
    /\ calls' = calls + 1
    /\ UNCHANGED <<db, pendingVoteCounts, afterTasks, nextId>>
    /\ IF fails \/ questionId \notin DOMAIN db.questions
       THEN /\ prev' = last
            /\ last' = ViewsCall(questionId,
                                 IF fails THEN "Error" ELSE "NotFound", 0, db)
            /\ UNCHANGED txns
       ELSE /\ txns' = txns \cup
                 {[call |-> calls + 1, questionId |-> questionId,
                   views |-> db.questions[questionId].views + 1]}
            /\ UNCHANGED <<last, prev>>

\* incrementViews from `await question.save()` on: the save sets the views
\* path of the stored document to the value computed from the read.
incrementViewsSave(t, fails) ==
    /\ t \in txns
    /\ txns' = txns \ {t}
    /\ prev' = last
    /\ UNCHANGED <<pendingVoteCounts, afterTasks, nextId, calls>>
    /\ IF fails \/ t.questionId \notin DOMAIN db.questions
       THEN /\ UNCHANGED db
            /\ last' = ViewsCall(t.questionId, "Error", 0, db)
       ELSE /\ db' = [db EXCEPT !.questions[t.questionId].views = t.views]
            /\ last' = ViewsCall(t.questionId, "none", t.views, db)

\* incrementViews calls on question 1 and on a missing question whose
\* steps may interleave.
NextViews ==
    \/ /\ calls < MaxViewCalls
       /\ \E questionId \in {1, MissingId}, fails \in BOOLEAN :
             incrementViewsRead(questionId, fails)
    \/ \E t \in txns, fails \in BOOLEAN : incrementViewsSave(t, fails)

SpecViews == Init /\ [][NextViews]_vars

\* C27: when two incrementViews calls on the same question have returned
\* success one after the other, in any interleaving of their reads and
\* saves, the stored views are two more than before the first of them
\* saved (n successful calls add n).
C27_EveryViewCounted ==
    (/\ last.op = "incrementViews" /\ last.ok
     /\ prev.op = "incrementViews" /\ prev.ok
     /\ last.questionId = prev.questionId)
    => db.questions[last.questionId].views
          = prev.pre.questions[last.questionId].views + 2

----------------------------------------------------------------------------
(* Overlapping toggleSaveQuestion calls.  The handler suspends at its store *)
(* calls: the lookups, then the delete or the create; no session is used.   *)

ToggleCall(userId, questionId, error, saved, pre) ==
    [op |-> "toggleSaveQuestion", userId |-> userId, questionId |-> questionId,
     ok |-> error = "none", error |-> error, thrown |-> error = "NotFound",
     saved |-> saved, pre |-> pre]

\* The user's Collection rows for the question.
CollectionsOf(d, userId, questionId) ==
    {c \in d.collections : c.question = questionId /\ c.author = userId}

\* toggleSaveQuestion up to the branch on `collection`: a missing question
\* throws outside the try; otherwise Collection.findOne yields the user's
\* row for the question, or none.
toggleSaveQuestionFind(userId, questionId) ==
    LET found == CollectionsOf(db, userId, questionId) IN
    /\ calls' = calls + 1
    /\ UNCHANGED <<db, pendingVoteCounts, afterTasks, nextId>>
    /\ IF questionId \notin DOMAIN db.questions
       THEN /\ prev' = last
            /\ last' = ToggleCall(userId, questionId, "NotFound", FALSE, db)
            /\ UNCHANGED txns
       ELSE /\ txns' = txns \cup
                 {[call |-> calls + 1, userId |-> userId, questionId |-> questionId,
                   collection |-> IF found = {} THEN MissingId
                                  ELSE Min({c._id : c \in found})]}
            /\ UNCHANGED <<last, prev>>

\* toggleSaveQuestion from the branch on: Collection.findByIdAndDelete of
\* the row found (saved: false), or Collection.create of a row (saved:
\* true).
toggleSaveQuestionWrite(t) ==
    /\ t \in txns
    /\ txns' = txns \ {t}
    /\ prev' = last
    /\ UNCHANGED <<pendingVoteCounts, afterTasks, calls>>
    /\ IF t.collection # MissingId
       THEN /\ db' = [db EXCEPT !.collections = {c \in @ : c._id # t.collection}]
            /\ UNCHANGED nextId
            /\ last' = ToggleCall(t.userId, t.questionId, "none", FALSE, db)
       ELSE /\ db' = [db EXCEPT !.collections = @ \cup
                        {[_id |-> nextId, question |-> t.questionId,
                          author |-> t.userId]}]
            /\ nextId' = nextId + 1
            /\ last' = ToggleCall(t.userId, t.questionId, "none", TRUE, db)

\* toggleSaveQuestion calls on question 1 and on a missing question whose
\* steps may interleave.
NextToggle ==
    \/ /\ calls < MaxToggleCalls
       /\ \E userId \in Users, questionId \in {1, MissingId} :
             toggleSaveQuestionFind(userId, questionId)
    \/ \E t \in txns : toggleSaveQuestionWrite(t)

SpecToggle == Init /\ [][NextToggle]_vars

\* C28: after any interleaving of toggleSaveQuestion calls there is at most
\* one Collection row per user and question, and the saved flag a call
\* returned tells whether that user's row exists once the call has
\* completed.
C28_OneBookmarkPerUser ==
    /\ \A userId \in Users, questionId \in DOMAIN db.questions :
          Cardinality(CollectionsOf(db, userId, questionId)) <= 1
    /\ (last.op = "toggleSaveQuestion" /\ last.ok) =>
          (last.saved <=> CollectionsOf(db, last.userId, last.questionId) # {})

====
